---------------------------- MODULE Spec2Model ----------------------------
(***************************************************************************)
(* The stock ingestion / query pipeline of the backend:                    *)
(*   services/stockDataAgent.js  (src/unnamed/part_003, lines 407-805)     *)
(*   services/stockService.js    (initialize, updateStockData)             *)
(*   scripts/fetchStockData.js   (command line trigger)                    *)
(*   routes/stocks.js, server.js (src/unnamed/part_002)                    *)
(*                                                                         *)
(* The file system (data directory, stock_data.csv, last_update.json),     *)
(* the process environment and the two HTTP providers are the              *)
(* environment; every asynchronous method is cut at its awaits.            *)
(***************************************************************************)
EXTENDS Integers, Sequences, FiniteSets, TLC

VARIABLES
    env,        \* process.env as read by the agent: apiKey, maxAttempts, days
    dirExists,  \* the directory data/stocks exists
    csvExists,  \* stock_data.csv exists
    csvLines,   \* its non-empty lines, each the sequence of its comma separated cells
    metaExists, \* last_update.json exists
    metaInfo,   \* its content: lastUpdate, totalCompanies, dataPoints
    now,        \* the wall clock, in ticks of HoursPerTick hours
    runs,       \* the invocations of updateStockData / fetchAllStockData, by slot
    query       \* the getStockData call answered by the latest step, if any

vars == <<env, dirExists, csvExists, csvLines, metaExists, metaInfo, now, runs,
          query>>

-----------------------------------------------------------------------------
(* Bounds of the model *)

MaxRetries == 2        \* a small STOCK_MAX_RETRIES override
ProviderPoints == 10   \* trading days a provider payload holds ("compact")
MaxClock == 3          \* last clock tick
BaseDay == 12          \* day of month of the latest trading day at tick 0
SmallDays == 2         \* a STOCK_DAYS override below ProviderPoints

(* Program constants *)

DefaultMaxRetries == 5     \* process.env.STOCK_MAX_RETRIES || '5'
DefaultDays == 30          \* process.env.STOCK_DAYS || '30'
BackoffStepSec == 60       \* Math.min(60 * attempt, 180)
BackoffCapSec == 180
StaleHours == 24           \* hoursSinceUpdate > 24
FetchDelayMs == 15000      \* process.env.STOCK_FETCH_DELAY_MS || '15000'

\* NaN (parseInt of a text that is no number, the time of an Invalid Date),
\* written as a value no setting and no clock reading of the model takes.
NotANumber == -999

\* The clock ticks twice per staleness threshold.
HoursPerTick == StaleHours \div 2

Min(a, b) == IF a <= b THEN a ELSE b
Max(a, b) == IF a >= b THEN a ELSE b

RECURSIVE SumSeq(_)
SumSeq(s) == IF s = <<>> THEN 0 ELSE Head(s) + SumSeq(Tail(s))

-----------------------------------------------------------------------------
(* Configuration: constructor *)

\* The head of defaultCompanies; the model runs with these two symbols.
companies ==
    << [symbol |-> "AAPL", name |-> "Apple Inc.", sector |-> "Technology"],
       [symbol |-> "MSFT", name |-> "Microsoft Corporation", sector |-> "Technology"] >>

NumCompanies == Len(companies)

\* String.prototype.toUpperCase on the symbols that occur in the model.
toUpperCase(s) ==
    CASE s = "aapl" -> "AAPL"
      [] s = "msft" -> "MSFT"
      [] s = "tsla" -> "TSLA"
      [] OTHER -> s

\* The values process.env can hold at start-up.
Envs ==
    [apiKey : BOOLEAN,
     maxAttempts : {0, 1, MaxRetries, DefaultMaxRetries},
     days : {SmallDays, DefaultDays}]

-----------------------------------------------------------------------------
(* Text of the table: numbers and dates as csv-writer prints them and as    *)
(* parseFloat / parseInt / new Date read them back.                         *)

NumRange == -200..200
DayRange == 1..31

\* String(value) of a number.
FormatNum(n) == ToString(n)

\* An ISO calendar date of January 2024, YYYY-MM-DD.
DateStr(d) == "2024-01-" \o (IF d < 10 THEN "0" ELSE "") \o ToString(d)

\* The texts that read as a number, with the number each reads as.
NumberOf ==
    [s \in {FormatNum(n) : n \in NumRange} |->
        CHOOSE n \in NumRange : FormatNum(n) = s]

\* The texts that read as a date, with the day each reads as.
DayOf ==
    [s \in {DateStr(d) : d \in DayRange} |->
        CHOOSE d \in DayRange : DateStr(d) = s]

\* parseFloat / parseInt of a cell: a number, or NaN for any other text.
parseFloat(s) ==
    IF s \in DOMAIN NumberOf
    THEN [nan |-> FALSE, v |-> NumberOf[s]]
    ELSE [nan |-> TRUE, v |-> 0]

\* new Date(text): the day, or Invalid Date for any other text.
parseDate(s) ==
    IF s \in DOMAIN DayOf
    THEN [nan |-> FALSE, v |-> DayOf[s]]
    ELSE [nan |-> TRUE, v |-> 0]

Header ==
    <<"Date", "Symbol", "Name", "Sector", "Open", "High", "Low", "Close",
      "Volume", "AdjustedClose", "PriceChange", "PriceChangePercent">>

\* A writer that puts the low under High and the high under Low.
RecordLine_HighLowSwapped(r) ==
    << r.date, r.symbol, r.name, r.sector, FormatNum(r.open), FormatNum(r.low),
       FormatNum(r.high), FormatNum(r.close), FormatNum(r.volume),
       FormatNum(r.adjustedClose), FormatNum(r.priceChange),
       FormatNum(r.priceChangePercent) >>

\* csv-writer: one record as the cells of its line, in header order.
RecordLine(r) ==
    << r.date, r.symbol, r.name, r.sector, FormatNum(r.open), FormatNum(r.high),
       FormatNum(r.low), FormatNum(r.close), FormatNum(r.volume),
       FormatNum(r.adjustedClose), FormatNum(r.priceChange),
       FormatNum(r.priceChangePercent) >>

\* saveToCsv, writeRecords(stockData): the lines appended for the rows.
LinesOf(rows) == [k \in 1..Len(rows) |-> RecordLine(rows[k])]

-----------------------------------------------------------------------------
(* The market and the two providers' payloads *)

\* Latest trading day at clock tick t.
Today(t) == BaseDay + (t * HoursPerTick) \div 24

BasePrice(sym) == IF sym = "AAPL" THEN 10 ELSE 20

\* The day's quote of a symbol. Every fourth day the open is reported as 0.
Quote(sym, d) ==
    LET o == IF d % 4 = 1 THEN 0 ELSE BasePrice(sym)
        c == BasePrice(sym) + (d % 3) - 1
    IN  [open |-> o, high |-> Max(o, c) + 1, low |-> Min(o, c), close |-> c,
         volume |-> 100 + d,
         adjusted |-> c - (d % 2),      \* '5. adjusted close'
         adjMissing |-> d % 5 = 0]      \* the payload has no adjusted close

\* The days a payload fetched at tick t holds.
PayloadDays(t, n) == {d \in DayRange : Today(t) - n < d /\ d <= Today(t)}

\* Set -> ascending sequence (Object.keys(ts).sort() on ISO dates, which
\* sort as text exactly as they sort by day).
RECURSIVE SortedSeq(_)
SortedSeq(S) ==
    IF S = {} THEN <<>>
    ELSE LET m == CHOOSE x \in S : \A y \in S : x <= y
         IN  <<m>> \o SortedSeq(S \ {m})

\* Array.prototype.slice(-n): the last n elements; slice(-0) is slice(0),
\* the whole array, and a negative n makes it slice(|n|).
SliceLast(s, n) ==
    IF n = 0 \/ n >= Len(s) THEN s
    ELSE IF n < 0 THEN SubSeq(s, Min(-n, Len(s)) + 1, Len(s))
    ELSE SubSeq(s, Len(s) - n + 1, Len(s))

\* Array.prototype.slice(0, n)
SliceFirst(s, n) == SubSeq(s, 1, Min(Max(n, 0), Len(s)))

-----------------------------------------------------------------------------
(* ProviderAdapter: the rows built from a payload *)

\* A percentage without the guard on open: the quotient by 1 when open is 0.
PercentOf_Unguarded(open, priceChange) ==
    (priceChange * 100) \div (IF open # 0 THEN open ELSE 1)

\* priceChangePercent: open ? (priceChange / open) * 100 : 0.  The quotes
\* are such that the quotient is a whole number.
PercentOf(open, priceChange) ==
    IF open # 0 THEN (priceChange * 100) \div open ELSE 0

\* isNaN(adj) ? close : adj
AdjustedOf(q) == IF q.adjMissing THEN q.close ELSE q.adjusted

\* fetchCompanyData, the dates.map callback: one row of the primary payload.
AlphaRow(company, d) ==
    LET q == Quote(company.symbol, d)
        priceChange == q.close - q.open
    IN  [date |-> DateStr(d),
         symbol |-> toUpperCase(company.symbol),
         name |-> company.name,
         sector |-> company.sector,
         open |-> q.open, high |-> q.high, low |-> q.low, close |-> q.close,
         volume |-> q.volume,
         adjustedClose |-> AdjustedOf(q),
         priceChange |-> priceChange,
         priceChangePercent |-> PercentOf(q.open, priceChange)]

\* fetchCompanyData with a 'Time Series (Daily)' payload of n days at tick t:
\* Object.keys(ts).sort().slice(-(this.days)), then the row of each date.
AlphaRows(company, t, n, days) ==
    LET dates == SliceLast(SortedSeq(PayloadDays(t, n)), days)
    IN  [k \in 1..Len(dates) |-> AlphaRow(company, dates[k])]

\* range = days <= 5 ? '5d' : (days <= 30 ? '1mo' : '3mo'), as the number of
\* trading days the chart payload holds.
YahooRangeDays(days) == IF days <= 5 THEN Min(5, ProviderPoints) ELSE ProviderPoints

\* fetchFromYahoo: an index of the chart arrays is skipped when its open or
\* close is null or 0 (parseFloat(x) || null).
YahooKeeps(symbol, d) ==
    LET q == Quote(symbol, d) IN q.open # 0 /\ q.close # 0

\* A fallback row that carries the configured name and sector of its symbol.
YahooRow_Configured(symbol, d) ==
    LET company == CHOOSE c \in {companies[k] : k \in 1..NumCompanies} :
                       c.symbol = symbol
    IN  AlphaRow([company EXCEPT !.symbol = symbol], d)

\* fetchFromYahoo, rows.push: one row of the chart payload.
YahooRow(symbol, d) ==
    LET q == Quote(symbol, d)
        change == q.close - q.open
    IN  [date |-> DateStr(d),
         symbol |-> toUpperCase(symbol),
         name |-> toUpperCase(symbol),
         sector |-> "Unknown",
         open |-> q.open, high |-> q.high, low |-> q.low, close |-> q.close,
         volume |-> q.volume,
         adjustedClose |-> q.close,
         priceChange |-> change,
         priceChangePercent |-> PercentOf(q.open, change)]

\* fetchFromYahoo with a chart payload of n days at tick t: rows.slice(-days).
YahooRows(symbol, t, n, days) ==
    LET kept == SortedSeq({d \in PayloadDays(t, n) : YahooKeeps(symbol, d)})
        rows == [k \in 1..Len(kept) |-> YahooRow(symbol, kept[k])]
    IN  SliceLast(rows, days)

-----------------------------------------------------------------------------
(* PersistentStore and FreshnessPolicy: the pure parts *)

\* getDataPointCount: Math.max(0, lines.length - 1); 0 when the read fails.
getDataPointCount(exists, lines) ==
    IF exists THEN Max(0, Len(lines) - 1) ELSE 0

\* A needsUpdate that is already true at 24 hours.
needsUpdate_AtLeast(exists, info, t) ==
    IF ~exists THEN TRUE
    ELSE (t - info.lastUpdate) * HoursPerTick >= StaleHours

\* A needsUpdate that asks for an update when lastUpdate is no date.
needsUpdate_InvalidIsStale(exists, info, t) ==
    IF ~exists \/ info.lastUpdate = NotANumber THEN TRUE
    ELSE (t - info.lastUpdate) * HoursPerTick > StaleHours

\* needsUpdate over getLastUpdateInfo: true without a metadata file,
\* otherwise hoursSinceUpdate > 24.  new Date(lastUpdate) of a missing or
\* unreadable lastUpdate is an Invalid Date: hoursSinceUpdate is NaN and the
\* comparison is false.
needsUpdate(exists, info, t) ==
    IF ~exists THEN TRUE
    ELSE IF info.lastUpdate = NotANumber THEN FALSE
    ELSE (t - info.lastUpdate) * HoursPerTick > StaleHours

\* A backoff that grows without the 180 s cap.
backoffSec_Uncapped(attempt) == BackoffStepSec * attempt

\* callAlpha: backoffSec = Math.min(60 * attempt, 180)
backoffSec(attempt) == Min(BackoffStepSec * attempt, BackoffCapSec)

\* callAlpha: if (attempt >= maxAttempts) throw; a comparison with NaN is
\* false.
retriesExhausted(attempt, maxAttempts) ==
    maxAttempts # NotANumber /\ attempt >= maxAttempts

\* A fallback taken only when the primary call threw.
fallbackNeeded_OnlyOnThrow(alpha) == alpha \in {"transport", "exhausted"}

\* A fetchCompanyData that gives up when the primary request itself failed.
fallbackNeeded_NotOnHardFailure(alpha) == alpha \in {"nots", "exhausted"}

\* fetchCompanyData: the fallback is called unless the primary payload had
\* the 'Time Series (Daily)' key (if (ts) return ...; the catch block).
fallbackNeeded(alpha) == alpha # "ts"

\* A loop body that saves and counts whatever the fetch returned.
hasData_Always(isNull, rows) == TRUE

\* A loop body that tests the result for null alone.
hasData_NonNull(isNull, rows) == ~isNull

\* fetchAllStockData: if (stockData && stockData.length)
hasData(isNull, rows) == ~isNull /\ Len(rows) > 0

-----------------------------------------------------------------------------
(* QueryEngine: getStockData and filterByPeriod over the text of the table *)

Undefined == "<undefined>"

\* row[h.trim()] = values[idx] ? values[idx].trim() : '' over all headers: the
\* value under the last header equal to title; undefined without one.
Field(headers, values, title) ==
    LET at == {idx \in 1..Len(headers) : headers[idx] = title}
        last == CHOOSE idx \in at : \A j \in at : j <= idx
    IN  IF at = {} THEN Undefined
        ELSE IF last <= Len(values) THEN values[last] ELSE ""

\* getStockData: the row objects of the lines after the first.
ParsedRows(lines) ==
    [k \in 1..(Len(lines) - 1) |->
        [Date |-> Field(lines[1], lines[k + 1], "Date"),
         Symbol |-> Field(lines[1], lines[k + 1], "Symbol"),
         Name |-> Field(lines[1], lines[k + 1], "Name"),
         Sector |-> Field(lines[1], lines[k + 1], "Sector"),
         Open |-> Field(lines[1], lines[k + 1], "Open"),
         High |-> Field(lines[1], lines[k + 1], "High"),
         Low |-> Field(lines[1], lines[k + 1], "Low"),
         Close |-> Field(lines[1], lines[k + 1], "Close"),
         Volume |-> Field(lines[1], lines[k + 1], "Volume"),
         AdjustedClose |-> Field(lines[1], lines[k + 1], "AdjustedClose")]]

\* The comparator (a, b) => new Date(b.Date) - new Date(a.Date) puts a before
\* b when it is negative; with an invalid date it is NaN and orders nothing.
Before(a, b) ==
    LET da == parseDate(a.Date) db == parseDate(b.Date)
    IN  ~da.nan /\ ~db.nan /\ da.v > db.v

RECURSIVE InsertDesc(_, _)
InsertDesc(s, x) ==
    IF s = <<>> THEN <<x>>
    ELSE IF Before(x, Head(s)) THEN <<x>> \o s
    ELSE <<Head(s)>> \o InsertDesc(Tail(s), x)

\* Array.prototype.sort with that comparator (a stable sort).
RECURSIVE SortDesc(_)
SortDesc(s) ==
    IF s = <<>> THEN <<>>
    ELSE InsertDesc(SortDesc(SubSeq(s, 1, Len(s) - 1)), s[Len(s)])

\* filterByPeriod: the switch on period.
daysToKeep(period, len) ==
    CASE period = "1d" -> 1
      [] period = "5d" -> 5
      [] period = "1mo" -> 30
      [] period = "3mo" -> 90
      [] period = "6mo" -> 180
      [] period = "1y" -> 365
      [] OTHER -> len

\* filterByPeriod
filterByPeriod(data, period) ==
    IF data = <<>> THEN data
    ELSE SliceFirst(SortDesc(data), daysToKeep(period, Len(data)))

\* A previous close taken from the rows of the requested period.
previousCloseOf_Filtered(companyData, filteredData) ==
    IF Len(filteredData) > 1 THEN parseFloat(filteredData[2].Close)
    ELSE parseFloat(filteredData[1].Close)

\* getStockData: previousClose
previousCloseOf(companyData, filteredData) ==
    IF Len(companyData) > 1 THEN parseFloat(companyData[2].Close)
    ELSE parseFloat(companyData[1].Close)

\* getStockData: the summary it returns or the error it throws.
getStockData(exists, lines, symbol, period) ==
    IF ~exists THEN [kind |-> "error", error |-> "file not found"]
    ELSE IF Len(lines) <= 1 THEN [kind |-> "error", error |-> "file empty"]
    ELSE
      LET data == ParsedRows(lines)
          Wanted(r) == r.Symbol = toUpperCase(symbol)
          companyData == SortDesc(SelectSeq(data, Wanted))
          filteredData == filterByPeriod(companyData, period)
      IN  IF companyData = <<>> THEN [kind |-> "error", error |-> "no data for symbol"]
          ELSE [kind |-> "ok",
                summary |->
                  [symbol |-> toUpperCase(symbol),
                   name |-> companyData[1].Name,
                   sector |-> companyData[1].Sector,
                   currentPrice |-> parseFloat(companyData[1].Close),
                   previousClose |-> previousCloseOf(companyData, filteredData),
                   priceHistory |->
                     [k \in 1..Len(filteredData) |->
                        [date |-> parseDate(filteredData[k].Date),
                         open |-> parseFloat(filteredData[k].Open),
                         high |-> parseFloat(filteredData[k].High),
                         low |-> parseFloat(filteredData[k].Low),
                         close |-> parseFloat(filteredData[k].Close),
                         volume |-> parseFloat(filteredData[k].Volume),
                         adjustedClose |-> parseFloat(filteredData[k].AdjustedClose)]]]]

\* The symbols and period labels requested in the model; "max" is a label
\* filterByPeriod does not know.
QuerySymbols == {"AAPL", "aapl", "MSFT", "TSLA"}
Periods == {"1d", "5d", "1mo", "3mo", "6mo", "1y", "max"}

-----------------------------------------------------------------------------
(* The invocations *)

Slots == {"t1", "t2"}

\* A history route that answers 503 while the table file is absent.
historyStatus_Distinguishes(result) ==
    IF result.kind = "ok" THEN 200
    ELSE IF result.error = "file not found" THEN 503 ELSE 404

\* router.get('/:symbol/history'): res.json of the summary, or status 404
\* in the catch around getStockData, whatever the error.
historyStatus(result) == IF result.kind = "ok" THEN 200 ELSE 404

NoQuery == [symbol |-> "", period |-> "", result |-> [kind |-> "none"], status |-> 0]

NoMeta == [lastUpdate |-> 0, totalCompanies |-> 0, dataPoints |-> 0]

IdleRun ==
    [pc |-> "idle",          \* idle, skipped, alpha, yahoo, tally, meta, write,
                             \* returned, threw
     i |-> 0,                \* index of the company being fetched
     attempt |-> 0,          \* callAlpha's attempt parameter
     requests |-> 0,         \* primary requests issued for this company
     sleeps |-> <<>>,        \* backoff sleeps (seconds) made for this company
     alpha |-> "none",       \* how callAlpha ended for this company
     yahooCalls |-> 0,       \* fetchFromYahoo calls made for this company
     yahoo |-> "none",       \* how fetchFromYahoo ended: error, nochart, chart
     isNull |-> TRUE,        \* fetchCompanyData returned null
     rows |-> <<>>,          \* the rows it returned otherwise
     successCount |-> 0,
     errorCount |-> 0,
     totalRows |-> 0,
     throttles |-> 0,        \* inter-symbol sleeps made
     log |-> <<>>,           \* per finished company: what was fetched and written
     stamp |-> 0,            \* updateLastUpdateTime: new Date()
     count |-> 0]            \* updateLastUpdateTime: getDataPointCount()

Free(r) == runs[r].pc \in {"idle", "skipped", "returned", "threw"}

\* fetchAllStockData without the API key check.
BeginFetchAll_NoKeyCheck == [IdleRun EXCEPT !.pc = "alpha", !.i = 1, !.attempt = 1]

\* fetchAllStockData up to its first await: the API key check.
BeginFetchAll ==
    IF env.apiKey
    THEN [IdleRun EXCEPT !.pc = "alpha", !.i = 1, !.attempt = 1]
    ELSE [IdleRun EXCEPT !.pc = "threw"]

TypeOK ==
    /\ env \in Envs
    /\ dirExists \in BOOLEAN /\ csvExists \in BOOLEAN /\ metaExists \in BOOLEAN
    /\ now \in 0..MaxClock
    /\ DOMAIN runs = Slots

Init ==
    /\ env \in Envs
    /\ dirExists \in BOOLEAN
    /\ csvExists = FALSE
    /\ csvLines = <<>>
    /\ metaExists = FALSE
    /\ metaInfo = NoMeta
    /\ now = 0
    /\ runs = [r \in Slots |-> IdleRun]
    /\ query = NoQuery

\* An initialize() that writes the initial table whether or not one exists.
createdTable_Overwrites(exists, lines) == <<Header>>

\* initialize: if (!await this.fileExists(this.csvPath)) createInitialCsv(),
\* which writes the header and no record.
createdTable(exists, lines) == IF exists THEN lines ELSE <<Header>>

\* initialize: mkdir -p, then createInitialCsv unless the table exists.
Initialize ==
    /\ dirExists' = TRUE
    /\ csvExists' = TRUE
    /\ csvLines' = createdTable(csvExists, csvLines)
    /\ query' = NoQuery
    /\ UNCHANGED <<env, metaExists, metaInfo, now, runs>>

\* An updateStockData that starts no run while another one is in progress.
UpdateStockData_Exclusive(r) ==
    /\ Free(r)
    /\ runs' = [runs EXCEPT ![r] =
         IF needsUpdate(metaExists, metaInfo, now) /\ \A s \in Slots : Free(s)
         THEN BeginFetchAll
         ELSE [IdleRun EXCEPT !.pc = "skipped"]]
    /\ query' = NoQuery
    /\ UNCHANGED <<env, dirExists, csvExists, csvLines, metaExists, metaInfo, now>>

\* stockService.updateStockData (cron tick, POST /refresh/:symbol) up to the
\* first await of fetchAllStockData.
UpdateStockData(r) ==
    /\ Free(r)
    /\ runs' = [runs EXCEPT ![r] =
         IF needsUpdate(metaExists, metaInfo, now)
         THEN BeginFetchAll
         ELSE [IdleRun EXCEPT !.pc = "skipped"]]
    /\ query' = NoQuery
    /\ UNCHANGED <<env, dirExists, csvExists, csvLines, metaExists, metaInfo, now>>

\* scripts/fetchStockData.js up to the first await of fetchAllStockData: the
\* API key check, initialize, needsUpdate.
FetchStockDataScript(r) ==
    /\ Free(r)
    /\ IF ~env.apiKey
       THEN /\ runs' = [runs EXCEPT ![r] = [IdleRun EXCEPT !.pc = "skipped"]]
            /\ UNCHANGED <<dirExists, csvExists, csvLines>>
       ELSE /\ dirExists' = TRUE
            /\ csvExists' = TRUE
            /\ csvLines' = createdTable(csvExists, csvLines)
            /\ runs' = [runs EXCEPT ![r] =
                 IF needsUpdate(metaExists, metaInfo, now)
                 THEN BeginFetchAll
                 ELSE [IdleRun EXCEPT !.pc = "skipped"]]
    /\ query' = NoQuery
    /\ UNCHANGED <<env, metaExists, metaInfo, now>>

\* One primary request of callAlpha and what follows it up to the next await.
AlphaRequest(r) ==
    LET run == runs[r]
        company == companies[run.i]
        sent == [run EXCEPT !.requests = @ + 1]
        \* how callAlpha ends on this response; "retry" when it sleeps and recurs
        outcome(resp) ==
            CASE resp = "note" ->
                   IF retriesExhausted(run.attempt, env.maxAttempts)
                   THEN "exhausted" ELSE "retry"
              [] resp = "error" -> "transport"
              [] resp = "nots" -> "nots"
              [] OTHER -> "ts"
        points(resp) == IF resp = "ts" THEN ProviderPoints ELSE 0
    IN
    /\ run.pc = "alpha"
    /\ \E resp \in {"note", "error", "nots", "ts", "tsEmpty"} :
         runs' = [runs EXCEPT ![r] =
           IF outcome(resp) = "retry"
           THEN [sent EXCEPT !.sleeps = Append(@, backoffSec(run.attempt)),
                             !.attempt = @ + 1]
           ELSE IF fallbackNeeded(outcome(resp))
           THEN [sent EXCEPT !.alpha = outcome(resp), !.pc = "yahoo"]
           ELSE [sent EXCEPT !.alpha = outcome(resp), !.pc = "tally",
                             !.isNull = outcome(resp) # "ts",
                             !.rows = IF outcome(resp) = "ts"
                                      THEN AlphaRows(company, now, points(resp), env.days)
                                      ELSE <<>>]]
    /\ query' = NoQuery
    /\ UNCHANGED <<env, dirExists, csvExists, csvLines, metaExists, metaInfo, now>>

\* fetchFromYahoo: the chart request and the rows built from it; null when
\* the request throws or the payload has no chart result.
YahooRequest(r) ==
    LET run == runs[r]
        company == companies[run.i]
        sent == [run EXCEPT !.yahooCalls = @ + 1, !.pc = "tally"]
    IN
    /\ run.pc = "yahoo"
    /\ \E resp \in {"error", "nochart", "chart", "chartEmpty"} :
         runs' = [runs EXCEPT ![r] =
           CASE resp \in {"error", "nochart"} ->
                  [sent EXCEPT !.yahoo = resp, !.isNull = TRUE]
             [] resp = "chart" ->
                  [sent EXCEPT !.yahoo = "chart", !.isNull = FALSE,
                               !.rows = YahooRows(company.symbol, now,
                                                  YahooRangeDays(env.days), env.days)]
             [] OTHER ->
                  [sent EXCEPT !.yahoo = "chart", !.isNull = FALSE,
                               !.rows = YahooRows(company.symbol, now, 0, env.days)]]
    /\ query' = NoQuery
    /\ UNCHANGED <<env, dirExists, csvExists, csvLines, metaExists, metaInfo, now>>

\* An append that skips the lines the table already holds.
saveToCsv_Deduplicated(lines, rows) ==
    LET IsNew(l) == \A i \in 1..Len(lines) : lines[i] # l
    IN  lines \o SelectSeq(LinesOf(rows), IsNew)

\* A writer that puts the new lines in front of the table.
saveToCsv_Prepends(lines, rows) == LinesOf(rows) \o lines

\* saveToCsv(stockData, true): csv-writer in append mode adds the lines of
\* the rows at the end of the table.
saveToCsv(lines, rows) == lines \o LinesOf(rows)

\* A loop that sleeps after every company, the last one included.
throttleDue_AfterEvery(i) == TRUE

\* fetchAllStockData: if (i < this.companies.length - 1) sleep, with the
\* companies counted from 1.
throttleDue(i) == i < NumCompanies

\* The body of the for loop of fetchAllStockData after fetchCompanyData has
\* returned: saveToCsv(stockData, true) (csv-writer in append mode writes no
\* header and creates a missing file; it fails when the directory is
\* missing), the counters, the throttle sleep, the next company.
Tally(r) ==
    LET run == runs[r]
        save == hasData(run.isNull, run.rows)
        saved == save /\ dirExists
        entry == [i |-> run.i, alpha |-> run.alpha, yahoo |-> run.yahoo,
                  isNull |-> run.isNull, fetched |-> Len(run.rows),
                  wrote |-> IF saved THEN Len(run.rows) ELSE 0,
                  saveThrew |-> save /\ ~saved]
        counted == [run EXCEPT
                      !.successCount = IF saved THEN @ + 1 ELSE @,
                      !.errorCount = IF saved THEN @ ELSE @ + 1,
                      !.totalRows = IF saved THEN @ + Len(run.rows) ELSE @,
                      !.throttles = IF throttleDue(run.i) THEN @ + 1 ELSE @,
                      !.log = Append(@, entry)]
    IN
    /\ run.pc = "tally"
    /\ IF saved
       THEN /\ csvExists' = TRUE
            /\ csvLines' = saveToCsv(csvLines, run.rows)
       ELSE UNCHANGED <<csvExists, csvLines>>
    /\ runs' = [runs EXCEPT ![r] =
         IF run.i < NumCompanies
         THEN [counted EXCEPT !.pc = "alpha", !.i = @ + 1, !.attempt = 1,
                              !.requests = 0, !.sleeps = <<>>,
                              !.alpha = "none", !.yahooCalls = 0,
                              !.yahoo = "none", !.isNull = TRUE,
                              !.rows = <<>>]
         ELSE [counted EXCEPT !.pc = "meta"]]
    /\ query' = NoQuery
    /\ UNCHANGED <<env, dirExists, metaExists, metaInfo, now>>

\* updateLastUpdateTime up to its second await: new Date() and
\* getDataPointCount().
ReadDataPoints(r) ==
    /\ runs[r].pc = "meta"
    /\ runs' = [runs EXCEPT ![r] =
         [@ EXCEPT !.pc = "write", !.stamp = now,
                   !.count = getDataPointCount(csvExists, csvLines)]]
    /\ query' = NoQuery
    /\ UNCHANGED <<env, dirExists, csvExists, csvLines, metaExists, metaInfo, now>>

\* updateLastUpdateTime: fs.writeFile (its error is logged and dropped), and
\* the return of fetchAllStockData.
WriteMeta(r) ==
    LET run == runs[r] IN
    /\ run.pc = "write"
    /\ IF dirExists
       THEN /\ metaExists' = TRUE
            /\ metaInfo' = [lastUpdate |-> run.stamp,
                            totalCompanies |-> NumCompanies,
                            dataPoints |-> run.count]
       ELSE UNCHANGED <<metaExists, metaInfo>>
    /\ runs' = [runs EXCEPT ![r] = [@ EXCEPT !.pc = "returned"]]
    /\ query' = NoQuery
    /\ UNCHANGED <<env, dirExists, csvExists, csvLines, now>>

\* Time passes while no invocation is between two file operations.
Tick ==
    /\ now < MaxClock
    /\ \A r \in Slots : Free(r) \/ runs[r].pc = "alpha"
    /\ now' = now + 1
    /\ query' = NoQuery
    /\ UNCHANGED <<env, dirExists, csvExists, csvLines, metaExists, metaInfo, runs>>

\* A request that creates the missing directory and table before it reads.
Query_Initializes(symbol, period) ==
    LET answer == getStockData(TRUE, createdTable(csvExists, csvLines), symbol, period)
    IN  /\ query = NoQuery
        /\ dirExists' = TRUE
        /\ csvExists' = TRUE
        /\ csvLines' = createdTable(csvExists, csvLines)
        /\ query' = [symbol |-> symbol, period |-> period, result |-> answer,
                     status |-> historyStatus(answer)]
        /\ UNCHANGED <<env, metaExists, metaInfo, now, runs>>

\* GET /:symbol/history: getStockData(symbol, period) and the status of the
\* response; fetchStockData of the stock service makes the same call.  It
\* changes nothing the program keeps, so the model records the answer of one
\* request per behaviour.
Query(symbol, period) ==
    LET answer == getStockData(csvExists, csvLines, symbol, period)
    IN  /\ query = NoQuery
        /\ query' = [symbol |-> symbol, period |-> period, result |-> answer,
                     status |-> historyStatus(answer)]
        /\ UNCHANGED <<env, dirExists, csvExists, csvLines, metaExists, metaInfo, now, runs>>

Next ==
    \/ Initialize
    \/ Tick
    \/ (\A s \in Slots : Free(s)) /\ UpdateStockData("t1")
    \/ (\A s \in Slots : Free(s)) /\ FetchStockDataScript("t1")
    \/ \E r \in Slots : AlphaRequest(r)
    \/ \E r \in Slots : YahooRequest(r)
    \/ \E r \in Slots : Tally(r)
    \/ \E r \in Slots : ReadDataPoints(r)
    \/ \E r \in Slots : WriteMeta(r)

Spec == Init /\ [][Next]_vars

-----------------------------------------------------------------------------
(* Triggers that arrive while a run is in progress, within one tick of the
   clock: the cron tick, the refresh route and the script share one table
   and one metadata file *)

InitConcurrent ==
    Init /\ env.apiKey /\ env.maxAttempts = 1 /\ env.days = SmallDays /\ dirExists

\* Both providers answer: the primary with its time series or without the
\* key, the fallback with a chart, and every payload has rows.
Served(r) ==
    \/ runs[r].pc = "yahoo" /\ runs[r].alpha = "nots"
    \/ runs[r].pc = "tally" /\ runs[r].rows # <<>>

NextConcurrent ==
    \/ Initialize
    \/ \E r \in Slots : UpdateStockData(r)
    \/ \E r \in Slots : FetchStockDataScript(r)
    \/ \E r \in Slots : AlphaRequest(r) /\ Served(r)'
    \/ \E r \in Slots : YahooRequest(r) /\ Served(r)'
    \/ \E r \in Slots : Tally(r)
    \/ \E r \in Slots : ReadDataPoints(r)
    \/ \E r \in Slots : WriteMeta(r)

SpecConcurrent == InitConcurrent /\ [][NextConcurrent]_vars

-----------------------------------------------------------------------------
(* Queries of a process that has just started, over the table earlier
   ingest runs left on disk *)

\* A later run starts only when needsUpdate() holds: more than StaleHours
\* after the stamp of the run before it.
StaleTicks == StaleHours \div HoursPerTick + 1
MaxRuns == MaxClock \div StaleTicks + 1

Sources == {"none", "alpha", "yahoo"}

\* What each company contributed in each run, and the tick of its fetch:
\* nothing (fetch failed, result empty, append raised), the rows of the
\* primary payload, or the rows of the fallback payload.
RunPlans ==
    {p \in [1..MaxRuns -> [1..NumCompanies -> [src : Sources, t : 0..MaxClock]]] :
        /\ \A k \in 1..MaxRuns : \A c \in 1..(NumCompanies - 1) :
              p[k][c].t <= p[k][c + 1].t
        /\ \A k \in 1..(MaxRuns - 1) :
              p[k][NumCompanies].t + StaleTicks <= p[k + 1][1].t}

\* fetchCompanyData / fetchFromYahoo followed by saveToCsv, for one company.
BatchLines(c, b, days) ==
    CASE b.src = "alpha" ->
           LinesOf(AlphaRows(companies[c], b.t, ProviderPoints, days))
      [] b.src = "yahoo" ->
           LinesOf(YahooRows(companies[c].symbol, b.t, YahooRangeDays(days), days))
      [] OTHER -> <<>>

RECURSIVE PlanLines(_, _, _, _)
PlanLines(p, k, c, days) ==
    IF k > MaxRuns THEN <<>>
    ELSE IF c > NumCompanies THEN PlanLines(p, k + 1, 1, days)
    ELSE BatchLines(c, p[k][c], days) \o PlanLines(p, k, c + 1, days)

\* The tables ingest runs leave: with the header of createInitialCsv when
\* initialize() ran before the first append, without it otherwise.
StoredTables(days) ==
    {head \o PlanLines(p, 1, 1, days) : head \in {<<Header>>, <<>>}, p \in RunPlans}

StoredTablesSmall == StoredTables(SmallDays)
StoredTablesDefault == StoredTables(DefaultDays)

TablesFor(days) == IF days = SmallDays THEN StoredTablesSmall ELSE StoredTablesDefault

InitQuery ==
    /\ env \in {e \in Envs : e.apiKey /\ e.maxAttempts = DefaultMaxRetries}
    /\ dirExists = TRUE
    /\ csvExists \in BOOLEAN
    /\ csvLines \in (IF csvExists THEN TablesFor(env.days) \ {<<>>} ELSE {<<>>})
    /\ metaExists = FALSE
    /\ metaInfo = NoMeta
    /\ now = 0
    /\ runs = [r \in Slots |-> IdleRun]
    /\ query = NoQuery

NextQuery == \E symbol \in QuerySymbols, period \in Periods : Query(symbol, period)

SpecQuery == InitQuery /\ [][NextQuery]_vars

\* Every table the ingest runs of Spec build is one of the tables a query
\* process starts from.
StoreCovered == csvExists => csvLines \in TablesFor(env.days)

-----------------------------------------------------------------------------
(* C1: the retry bound of callAlpha *)

\* The sleeps the claim states for n attempts that all meet a rate-limit or
\* error marker: min(60 * i, 180) seconds before attempt i + 1.
ClaimedSleeps(n) == [i \in 1..(n - 1) |-> Min(60 * i, 180)]

\* C1 as stated: when every primary response for a company carried a marker,
\* exactly maxAttempts requests were issued before the call failed, and the
\* sleeps were min(60 * i, 180) for i = 1..maxAttempts-1.
C1_ExactlyMaxAttempts ==
    \A r \in Slots :
        runs[r].alpha = "exhausted" =>
            /\ runs[r].requests = env.maxAttempts
            /\ runs[r].sleeps = ClaimedSleeps(env.maxAttempts)

\* C1 (amended): when every primary response for a company carried a marker,
\* exactly max(maxAttempts, 1) requests were issued before the call failed;
\* the sleep before attempt i + 1 was min(60 * i, 180) seconds, none follows
\* the last attempt, the total is their sum (540 s for the default 5), and
\* the attempt counter starts again at 1 for each company.
C1_RetryBound ==
    \A r \in Slots :
        LET run == runs[r] IN
        /\ run.alpha = "exhausted" =>
              /\ run.requests = Max(env.maxAttempts, 1)
              /\ run.sleeps = ClaimedSleeps(env.maxAttempts)
              /\ Len(run.sleeps) = run.requests - 1
              /\ SumSeq(run.sleeps) = SumSeq(ClaimedSleeps(env.maxAttempts))
              /\ env.maxAttempts = 5 => SumSeq(run.sleeps) = 540
        /\ (run.pc = "alpha" /\ run.requests = 0) =>
              run.attempt = 1 /\ run.sleeps = <<>>

\* The second company of a run exhausts the default five attempts after the
\* first company did.
C1_Witness ==
    \E r \in Slots :
        /\ env.maxAttempts = DefaultMaxRetries
        /\ runs[r].i = 2
        /\ runs[r].alpha = "exhausted"
        /\ runs[r].log # <<>>
        /\ runs[r].log[1].alpha = "exhausted"

-----------------------------------------------------------------------------
(* C2: provider selection in fetchCompanyData *)

\* C2: the primary provider is asked first; the fallback is called exactly
\* when the primary payload had no time-series key or the primary call threw
\* (transport error, retries exhausted), and then its rows are returned
\* whenever it succeeds; null is returned only when both providers failed;
\* with the time-series key the fallback is never called.
C2_FallbackSelection ==
    \A r \in Slots :
        LET run == runs[r]
            company == companies[run.i]
            primaryFailed == run.alpha \in {"nots", "transport", "exhausted"}
        IN
        /\ run.pc = "yahoo" =>
              run.requests >= 1 /\ run.yahooCalls = 0 /\ primaryFailed
        /\ run.pc = "tally" =>
              /\ run.requests >= 1
              /\ run.yahooCalls = (IF primaryFailed THEN 1 ELSE 0)
              /\ primaryFailed \/ run.alpha = "ts"
              /\ run.alpha = "ts" =>
                    /\ run.yahoo = "none" /\ ~run.isNull
                    /\ \A k \in 1..Len(run.rows) :
                          /\ run.rows[k].name = company.name
                          /\ run.rows[k].sector = company.sector
              /\ run.yahoo = "chart" =>
                    /\ ~run.isNull
                    /\ \A k \in 1..Len(run.rows) :
                          /\ run.rows[k].name = toUpperCase(company.symbol)
                          /\ run.rows[k].sector = "Unknown"
              /\ run.isNull <=> (primaryFailed /\ run.yahoo \in {"error", "nochart"})

\* A primary payload without the time-series key, answered with the
\* fallback's rows.
C2_Witness ==
    \E r \in Slots :
        /\ runs[r].pc = "tally"
        /\ runs[r].alpha = "nots"
        /\ runs[r].yahoo = "chart"
        /\ Len(runs[r].rows) > 0
        /\ runs[r].rows[1].sector = "Unknown"

-----------------------------------------------------------------------------
(* C3, C4: the per-company tally of fetchAllStockData *)

\* The step in which invocation r leaves the loop body of its company.
TallyStep(r) == runs[r].pc = "tally" /\ runs'[r].pc # "tally"

\* C3: a company whose fetch returned null is counted in errorCount, has no
\* row written and does not abort the run; every company is attempted once,
\* in order, and when the run returns successCount + errorCount is the
\* number of configured companies.
C3_FailureTallied ==
    /\ [][\A r \in Slots :
            (TallyStep(r) /\ runs[r].isNull) =>
                /\ csvLines' = csvLines /\ csvExists' = csvExists
                /\ runs'[r].errorCount = runs[r].errorCount + 1
                /\ runs'[r].successCount = runs[r].successCount
                /\ IF runs[r].i < NumCompanies
                   THEN runs'[r].pc = "alpha" /\ runs'[r].i = runs[r].i + 1
                   ELSE runs'[r].pc = "meta"]_vars
    /\ [](\A r \in Slots :
            LET run == runs[r] IN
            /\ run.pc \in {"alpha", "yahoo", "tally"} =>
                  /\ run.successCount + run.errorCount = run.i - 1
                  /\ Len(run.log) = run.i - 1
            /\ run.pc \in {"meta", "write", "returned"} =>
                  /\ run.successCount + run.errorCount = NumCompanies
                  /\ Len(run.log) = NumCompanies
            /\ \A k \in 1..Len(run.log) : run.log[k].i = k)

\* A run that returned although its first company failed with null.
C3_Witness ==
    \E r \in Slots :
        /\ runs[r].pc = "returned"
        /\ runs[r].log[1].isNull
        /\ ~runs[r].log[2].isNull
        /\ runs[r].successCount = 1
        /\ runs[r].errorCount = 1

\* C4 as stated: every non-null result, an empty one included, is appended
\* and counted in successCount; errorCount grows only for a null result or
\* an exception.
C4_NonNullIsSuccess ==
    [][\A r \in Slots :
          TallyStep(r) =>
              LET raised == hasData(runs[r].isNull, runs[r].rows) /\ ~dirExists
              IN  /\ (~runs[r].isNull /\ ~raised) =>
                        /\ csvLines' = csvLines \o LinesOf(runs[r].rows)
                        /\ runs'[r].successCount = runs[r].successCount + 1
                  /\ runs'[r].errorCount = runs[r].errorCount + 1 =>
                        (runs[r].isNull \/ raised)]_vars

\* C4 (amended): a result that is neither null nor empty is appended to the
\* table and counted in successCount and totalRows, unless the append raises;
\* errorCount grows exactly when the result is null or empty or the append
\* raised, and then nothing is written.
C4_NonEmptyIsSuccess ==
    [][\A r \in Slots :
          TallyStep(r) =>
              LET run == runs[r]
                  nonEmpty == ~run.isNull /\ Len(run.rows) > 0
                  raised == nonEmpty /\ ~dirExists
              IN  IF nonEmpty /\ ~raised
                  THEN /\ csvLines' = csvLines \o LinesOf(run.rows)
                       /\ csvExists'
                       /\ runs'[r].successCount = run.successCount + 1
                       /\ runs'[r].totalRows = run.totalRows + Len(run.rows)
                       /\ runs'[r].errorCount = run.errorCount
                  ELSE /\ csvLines' = csvLines /\ csvExists' = csvExists
                       /\ runs'[r].errorCount = run.errorCount + 1
                       /\ runs'[r].successCount = run.successCount
                       /\ runs'[r].totalRows = run.totalRows]_vars

\* An empty, non-null result has been tallied as a failure.
C4_Witness ==
    \E r \in Slots : \E k \in 1..Len(runs[r].log) :
        /\ ~runs[r].log[k].isNull
        /\ runs[r].log[k].fetched = 0
        /\ runs[r].errorCount >= 1
        /\ dirExists

-----------------------------------------------------------------------------
(* C5, C6: freshness and the metadata written by a run *)

\* Number of data rows in the table: its lines other than the header.
DataRows == Cardinality({k \in 1..Len(csvLines) : csvLines[k] # Header})

\* An invocation has just returned: nothing has happened since.
JustReturned(r) == runs[r].pc = "returned" /\ now = runs[r].stamp

\* C5: needsUpdate() is true without a metadata file, false immediately
\* after a fetchAllStockData run has returned, false up to 24 hours after
\* the recorded lastUpdate and true beyond.
C5_Freshness ==
    /\ ~metaExists => needsUpdate(metaExists, metaInfo, now)
    /\ metaExists =>
          (needsUpdate(metaExists, metaInfo, now)
              <=> (now - metaInfo.lastUpdate) * HoursPerTick > 24)
    /\ \A r \in Slots :
          JustReturned(r) => ~needsUpdate(metaExists, metaInfo, now)

\* C6: whenever fetchAllStockData has returned, the metadata file holds
\* lastUpdate = the time at the end of the run, totalCompanies = the number
\* of configured companies and dataPoints = the number of data rows then in
\* the table; with one company served by the primary and one by the
\* fallback, successCount = 2, errorCount = 0 and totalCompanies = 2.
C6_MetadataOnReturn ==
    \A r \in Slots :
        runs[r].pc = "returned" =>
            /\ metaExists
            /\ metaInfo.lastUpdate = runs[r].stamp
            /\ metaInfo.totalCompanies = NumCompanies
            /\ metaInfo.dataPoints = DataRows
            /\ (/\ runs[r].log[1].alpha = "ts" /\ runs[r].log[1].wrote > 0
                /\ runs[r].log[2].yahoo = "chart" /\ runs[r].log[2].wrote > 0) =>
                  /\ runs[r].successCount = 2 /\ runs[r].errorCount = 0
                  /\ metaInfo.totalCompanies = 2

-----------------------------------------------------------------------------
(* C7: the missing API key *)

\* C7: without ALPHA_VANTAGE_API_KEY fetchAllStockData fails before any
\* provider request: no company is fetched, nothing sleeps, no row is
\* appended and the metadata file is not written.
C7_NoKeyNoWork ==
    ~env.apiKey =>
        /\ \A r \in Slots :
              /\ runs[r].pc \in {"idle", "threw", "skipped"}
              /\ runs[r].requests = 0 /\ runs[r].yahooCalls = 0
              /\ runs[r].sleeps = <<>> /\ runs[r].throttles = 0
              /\ runs[r].log = <<>>
        /\ DataRows = 0
        /\ ~metaExists

\* updateStockData has called fetchAllStockData without a key.
C7_Witness == ~env.apiKey /\ \E r \in Slots : runs[r].pc = "threw"

-----------------------------------------------------------------------------
(* C8, C9, C10: the summary of getStockData against the lines of the table *)

PeriodLabels == {"1d", "5d", "1mo", "3mo", "6mo", "1y"}

ClaimedDayCount(period) ==
    CASE period = "1d" -> 1
      [] period = "5d" -> 5
      [] period = "1mo" -> 30
      [] period = "3mo" -> 90
      [] period = "6mo" -> 180
      [] period = "1y" -> 365

\* The data rows of the table stored for a symbol, in file order: the lines
\* other than the header whose second cell is the symbol in upper case.
StoredLinesOf(symbol) ==
    LET IsRowOf(l) == l # Header /\ l[2] = toUpperCase(symbol)
    IN  SelectSeq(csvLines, IsRowOf)

DayOfLine(l) == parseDate(l[1]).v
CloseOfLine(l) == parseFloat(l[8]).v

\* The number of elements of a sequence that satisfy a test.
CountIn(s, Test(_)) == Cardinality({i \in 1..Len(s) : Test(s[i])})

Answered == query # NoQuery
Summary == query.result.summary
History == query.result.summary.priceHistory

\* C8: for every period label the priceHistory returned by getStockData has
\* at most the mapped day count of rows and is sorted strictly descending by
\* date, so that no two of its rows share a date.
C8_StrictlyDescending ==
    (Answered /\ query.result.kind = "ok" /\ query.period \in PeriodLabels) =>
        /\ Len(History) <= ClaimedDayCount(query.period)
        /\ \A i \in 1..(Len(History) - 1) :
              /\ ~History[i].date.nan /\ ~History[i + 1].date.nan
              /\ History[i].date.v > History[i + 1].date.v

\* The part of C8 that holds: at most the mapped day count of rows, in
\* non-increasing date order.
C8_BoundedDescending ==
    (Answered /\ query.result.kind = "ok" /\ query.period \in PeriodLabels) =>
        /\ Len(History) <= ClaimedDayCount(query.period)
        /\ \A i \in 1..(Len(History) - 1) :
              History[i].date.v >= History[i + 1].date.v

\* h holds the first n of the rows ordered most recent first: n rows in
\* non-increasing date order, each of them a stored row, and every stored
\* row more recent than the last of h is in h as often as it is stored.
FirstRowsOf(h, rows, n) ==
    /\ Len(h) = n
    /\ \A i \in 1..(Len(h) - 1) : h[i].date.v >= h[i + 1].date.v
    /\ \A i \in 1..Len(h) :
          /\ ~h[i].date.nan
          /\ \E j \in 1..Len(rows) :
                /\ DayOfLine(rows[j]) = h[i].date.v
                /\ parseFloat(rows[j][5]) = h[i].open
                /\ parseFloat(rows[j][6]) = h[i].high
                /\ parseFloat(rows[j][7]) = h[i].low
                /\ parseFloat(rows[j][8]) = h[i].close
                /\ parseFloat(rows[j][9]) = h[i].volume
                /\ parseFloat(rows[j][10]) = h[i].adjustedClose
    /\ \A d \in DayRange :
          LET inH(x) == x.date.v = d
              inRows(l) == DayOfLine(l) = d
          IN  /\ CountIn(h, inH) <= CountIn(rows, inRows)
              /\ (n > 0 /\ d > h[n].date.v) => CountIn(h, inH) = CountIn(rows, inRows)

\* C9: for a symbol with k >= 1 stored rows getStockData returns exactly the
\* first min(N, k) of them ordered most recent first, N being the day count
\* of the period label and k for any other label.
C9_FirstNRows ==
    Answered =>
        LET rows == StoredLinesOf(query.symbol)
            k == Len(rows)
            N == IF query.period \in PeriodLabels
                 THEN ClaimedDayCount(query.period) ELSE k
        IN  k > 0 =>
              /\ query.result.kind = "ok"
              /\ FirstRowsOf(History, rows, Min(N, k))

\* C9, whenever a summary is returned: the same first-N truncation.
C9_FirstNRowsOfSummary ==
    (Answered /\ query.result.kind = "ok") =>
        LET rows == StoredLinesOf(query.symbol)
            k == Len(rows)
            N == IF query.period \in PeriodLabels
                 THEN ClaimedDayCount(query.period) ELSE k
        IN  FirstRowsOf(History, rows, Min(N, k))

\* Period '1d' on a table with its header and exactly 10 rows of the symbol
\* on 10 consecutive days: one row, the most recent.
C9_TenRowsOneDay ==
    /\ Answered /\ query.period = "1d" /\ query.result.kind = "ok"
    /\ LET rows == StoredLinesOf(query.symbol)
       IN  /\ Len(rows) = 10
           /\ \A j \in 1..9 : DayOfLine(rows[j + 1]) = DayOfLine(rows[j]) + 1
           /\ Len(History) = 1
           /\ History[1].date.v = DayOfLine(rows[10])

\* The same request on a table whose first append found no table file.
C9_TenRowsNoSummary ==
    /\ Answered /\ query.period = "1d" /\ query.result.kind = "error"
    /\ LET rows == StoredLinesOf(query.symbol)
       IN  /\ Len(rows) = 10
           /\ \A j \in 1..9 : DayOfLine(rows[j + 1]) = DayOfLine(rows[j]) + 1

\* C10: in every summary currentPrice is the Close of the symbol's most
\* recent row and previousClose the Close of its second most recent row, or
\* currentPrice when the symbol has one row; neither depends on the period.
C10_PriceFields ==
    (Answered /\ query.result.kind = "ok") =>
        LET rows == StoredLinesOf(query.symbol)
            k == Len(rows)
            days == {DayOfLine(rows[j]) : j \in 1..k}
            top == CHOOSE d \in days : \A e \in days : e <= d
            onTop(l) == DayOfLine(l) = top
            second == IF CountIn(rows, onTop) > 1 THEN top
                      ELSE CHOOSE d \in days \ {top} : \A e \in days \ {top} : e <= d
        IN  /\ k > 0
            /\ ~Summary.currentPrice.nan /\ ~Summary.previousClose.nan
            /\ \E j \in 1..k : /\ DayOfLine(rows[j]) = top
                               /\ Summary.currentPrice.v = CloseOfLine(rows[j])
            /\ k = 1 => Summary.previousClose = Summary.currentPrice
            /\ k > 1 => \E j \in 1..k : /\ DayOfLine(rows[j]) = second
                                        /\ Summary.previousClose.v = CloseOfLine(rows[j])

\* A '1d' summary of a symbol with several rows whose previous close is not
\* the close of the one row of its history.
C10_Witness ==
    /\ Answered /\ query.result.kind = "ok" /\ query.period = "1d"
    /\ Len(StoredLinesOf(query.symbol)) > 1
    /\ Len(History) = 1
    /\ Summary.previousClose # Summary.currentPrice
    /\ Summary.currentPrice = History[1].close

-----------------------------------------------------------------------------
(* C11: the symbol that is not in the table *)

SymbolNotFound == [kind |-> "error", error |-> "no data for symbol"]

\* C11: on a table with data lines getStockData fails with the
\* symbol-not-found error exactly when no stored row has the requested
\* symbol in upper case, and a request in any letter case is answered as
\* the request in upper case.
C11_SymbolNotFound ==
    (Answered /\ csvExists /\ Len(csvLines) > 1) =>
        /\ query.result = SymbolNotFound <=> Len(StoredLinesOf(query.symbol)) = 0
        /\ query.result =
             getStockData(csvExists, csvLines, toUpperCase(query.symbol), query.period)

\* C11, the parts that hold: the error implies that the parsed rows hold no
\* row of the symbol, a symbol without stored rows gets the error, and the
\* letter case of the request does not matter.
C11_NotFoundWithoutRows ==
    (Answered /\ csvExists /\ Len(csvLines) > 1) =>
        /\ Len(StoredLinesOf(query.symbol)) = 0 => query.result = SymbolNotFound
        /\ (query.result = SymbolNotFound /\ csvLines[1] = Header)
              => Len(StoredLinesOf(query.symbol)) = 0
        /\ query.result =
             getStockData(csvExists, csvLines, toUpperCase(query.symbol), query.period)

\* A lower-case request answered with the summary of the symbol.
C11_LowerCaseSummary ==
    /\ Answered /\ query.symbol = "aapl" /\ query.result.kind = "ok"
    /\ Summary.symbol = "AAPL"
    /\ Len(History) > 0

-----------------------------------------------------------------------------
(* C12: the table that is absent or empty *)

StoreUnavailable == [kind |-> "error", error |-> "file not found"]
StoreEmpty == [kind |-> "error", error |-> "file empty"]

\* The step in which a request is answered.
QueryStep == query = NoQuery /\ query' # NoQuery

\* C12: a request made while the table file does not exist fails with the
\* store-unavailable error, a request on a table of the header alone fails
\* with the store-empty error, and in both cases the directory, the table
\* and the metadata are left as they were.
C12_AbsentOrEmpty ==
    [][QueryStep =>
        /\ ~csvExists => query'.result = StoreUnavailable
        /\ (csvExists /\ csvLines = <<Header>>) => query'.result = StoreEmpty
        /\ (~csvExists \/ csvLines = <<Header>>) =>
              UNCHANGED <<dirExists, csvExists, csvLines, metaExists, metaInfo>>]_vars

\* A request has been answered on the table initialize() created.
C12_Witness ==
    /\ Answered /\ csvExists /\ csvLines = <<Header>>
    /\ query.result = StoreEmpty

\* A request has been answered before any table existed.
C12_WitnessAbsent ==
    /\ Answered /\ ~csvExists /\ query.result = StoreUnavailable

-----------------------------------------------------------------------------
(* C13: initialize() called again *)

\* C13: initialize() on no table leaves the header-only table, and a second
\* call leaves what the first left; initialize() on an existing table, with
\* or without data rows, leaves its content unchanged.
C13_InitializeIdempotent ==
    [][Initialize =>
        /\ dirExists' /\ csvExists'
        /\ ~csvExists => csvLines' = <<Header>>
        /\ csvExists => csvLines' = csvLines
        /\ createdTable(csvExists', csvLines') = csvLines'
        /\ UNCHANGED <<metaExists, metaInfo>>]_vars

\* initialize() has created the table and nothing else has happened.
C13_Witness ==
    /\ dirExists /\ csvExists /\ csvLines = <<Header>>
    /\ ~metaExists
    /\ \A r \in Slots : runs[r] = IdleRun

-----------------------------------------------------------------------------
(* C14: rows appended and read back *)

\* A priceHistory entry carries the date and the numbers of a row.
SameValues(h, x) ==
    /\ ~h.date.nan /\ DateStr(h.date.v) = x.date
    /\ h.open = [nan |-> FALSE, v |-> x.open]
    /\ h.high = [nan |-> FALSE, v |-> x.high]
    /\ h.low = [nan |-> FALSE, v |-> x.low]
    /\ h.close = [nan |-> FALSE, v |-> x.close]
    /\ h.volume = [nan |-> FALSE, v |-> x.volume]
    /\ h.adjustedClose = [nan |-> FALSE, v |-> x.adjustedClose]

\* The rows the provider adapters build for a symbol in upper case.
AdapterRows(symbol) ==
    UNION {{AlphaRow(companies[c], d), YahooRow(companies[c].symbol, d)} :
             c \in {c \in 1..NumCompanies : toUpperCase(companies[c].symbol) = symbol},
             d \in DayRange}

\* C14: on a table that starts with the header, getStockData for a symbol
\* with a period that covers all its rows returns one priceHistory entry per
\* row that saveToCsv appended for the symbol, and every appended row has an
\* entry with its date, open, high, low, close, volume and adjustedClose.
C14_RoundTrip ==
    (Answered /\ query.period = "max" /\ csvExists /\ csvLines[1] = Header
       /\ query.result.kind = "ok") =>
        LET lines == StoredLinesOf(query.symbol)
        IN  /\ Len(History) = Len(lines)
            /\ \A j \in 1..Len(lines) :
                  \E x \in AdapterRows(toUpperCase(query.symbol)) :
                      /\ RecordLine(x) = lines[j]
                      /\ \E i \in 1..Len(History) : SameValues(History[i], x)

\* Rows of the primary and of the fallback provider have been appended to
\* an initialized table and read back.
C14_Witness ==
    /\ Answered /\ query.period = "max" /\ query.result.kind = "ok"
    /\ csvLines[1] = Header
    /\ LET lines == StoredLinesOf(query.symbol)
       IN  /\ Len(History) = Len(lines)
           /\ \E j \in 1..Len(lines) : lines[j][3] = "Apple Inc."
           /\ \E j \in 1..Len(lines) : lines[j][3] = "AAPL"

-----------------------------------------------------------------------------
(* C15: the percentage of a row whose open is 0 *)

\* C15: every row a provider adapter has produced has priceChangePercent = 0
\* when its open is 0, and otherwise priceChange = close - open and
\* priceChangePercent = (close - open) / open * 100.
C15_ZeroGuard ==
    \A r \in Slots : \A k \in 1..Len(runs[r].rows) :
        LET x == runs[r].rows[k]
        IN  /\ x.open = 0 => x.priceChangePercent = 0
            /\ x.open # 0 =>
                  /\ x.priceChange = x.close - x.open
                  /\ x.priceChangePercent * x.open = (x.close - x.open) * 100

\* fetchCompanyData has returned rows of the primary payload, one of them
\* with open 0 and a close that is not 0.
C15_Witness ==
    \E r \in Slots :
        /\ runs[r].pc = "tally" /\ runs[r].alpha = "ts"
        /\ \E k \in 1..Len(runs[r].rows) :
              /\ runs[r].rows[k].open = 0
              /\ runs[r].rows[k].close # 0
              /\ runs[r].rows[k].priceChangePercent = 0
        /\ \E k \in 1..Len(runs[r].rows) :
              /\ runs[r].rows[k].open # 0
              /\ runs[r].rows[k].priceChangePercent # 0

-----------------------------------------------------------------------------
(* C16: the status of the history endpoint *)

\* C16: the history endpoint answers a request for a symbol without rows
\* with 404 and a request made while the table file is absent with 503, and
\* never with the 500 of a crash.
C16_NotFoundOrUnavailable ==
    Answered =>
        /\ query.status # 500
        /\ query.result = SymbolNotFound => query.status = 404
        /\ ~csvExists => query.status = 503

\* C16 as the route behaves: 200 with a summary, and 404 for every failure
\* of getStockData, the absent table file included.
C16_EveryFailure404 ==
    Answered =>
        /\ query.result.kind = "ok" <=> query.status = 200
        /\ query.result.kind = "error" <=> query.status = 404
        /\ ~csvExists => query.status = 404
        /\ (csvExists /\ Len(StoredLinesOf(query.symbol)) = 0) => query.status = 404

\* A request made before any table file existed has been answered.
C16_Witness ==
    /\ Answered /\ ~csvExists
    /\ query.result = StoreUnavailable
    /\ query.status = 404

-----------------------------------------------------------------------------
(* C17: a trigger during a run *)

Stale == needsUpdate(metaExists, metaInfo, now)

\* The step in which a trigger is handled by slot r.
TriggerStep(r) == Free(r) /\ runs'[r] # runs[r]

\* C17: needsUpdate() turns false only in the step that ends a run by writing
\* the metadata, and a trigger that finds needsUpdate() true starts a run
\* whether or not another run is in progress.
C17_NothingSerializes ==
    [][/\ (Stale /\ ~Stale') =>
             \E r \in Slots : runs[r].pc = "write" /\ runs'[r].pc = "returned"
       /\ \A r \in Slots :
             (TriggerStep(r) /\ Stale /\ env.apiKey) => runs'[r].pc = "alpha"]_vars

\* Two runs are active at once and both have appended: the first run's rows
\* for its first company, then the second run's rows for the same company
\* and dates, then the first run's rows for its second company.
C17_Witness ==
    /\ \A r \in Slots : ~Free(r) /\ Len(runs[r].log) >= 1 /\ runs[r].log[1].wrote > 0
    /\ \E i, j, k \in 1..Len(csvLines) :
          /\ i < j /\ j < k
          /\ csvLines[i][3] = "Apple Inc." /\ csvLines[j][3] = "AAPL"
          /\ csvLines[i][1] = csvLines[j][1] /\ csvLines[i][2] = csvLines[j][2]
          /\ csvLines[k][2] = "MSFT"

-----------------------------------------------------------------------------
(* C18: the same rows ingested again *)

\* How often a line is in the table.
CopiesOf(l) == Cardinality({i \in 1..Len(csvLines) : csvLines[i] = l})

\* The runs of two slots received the same rows for every company.
SameRows(r, s) ==
    /\ Len(runs[r].log) = NumCompanies /\ Len(runs[s].log) = NumCompanies
    /\ \A c \in 1..NumCompanies :
          /\ runs[r].log[c].alpha = runs[s].log[c].alpha
          /\ runs[r].log[c].yahoo = runs[s].log[c].yahoo
          /\ runs[r].log[c].fetched = runs[s].log[c].fetched

\* C18: an append adds every row it is given, whether or not the table holds
\* the row already; after two completed runs that received the same rows
\* the table holds every row twice and twice the data rows of one run.
C18_NoDeduplication ==
    /\ [][\A r \in Slots :
            (TallyStep(r) /\ csvLines' # csvLines) =>
                /\ Len(csvLines') = Len(csvLines) + Len(runs[r].rows)
                /\ \A k \in 1..Len(runs[r].rows) :
                      csvLines'[Len(csvLines) + k] = RecordLine(runs[r].rows[k])]_vars
    /\ [](\A r, s \in Slots :
            (r # s /\ runs[r].pc = "returned" /\ runs[s].pc = "returned"
               /\ SameRows(r, s)) =>
                /\ DataRows = 2 * runs[r].totalRows
                /\ \A i \in 1..Len(csvLines) :
                      csvLines[i] # Header => CopiesOf(csvLines[i]) = 2)

\* Two runs that received the same rows have completed.
C18_Witness ==
    /\ \A r \in Slots : runs[r].pc = "returned" /\ runs[r].totalRows > 0
    /\ SameRows("t1", "t2")
    /\ DataRows = 2 * runs["t1"].totalRows

-----------------------------------------------------------------------------
(* C19: the run in which every company fails *)

\* C19: a run that has returned with errorCount = the number of companies
\* and no row appended has written fresh metadata: needsUpdate() is false
\* from the end of the run until more than 24 hours have passed.
C19_AllFailedStillFresh ==
    \A r \in Slots :
        (runs[r].pc = "returned" /\ runs[r].errorCount = NumCompanies
           /\ runs[r].totalRows = 0) =>
            /\ metaExists
            /\ metaInfo.lastUpdate = runs[r].stamp
            /\ Stale <=> (now - runs[r].stamp) * HoursPerTick > 24

\* C19 where the metadata can be written: a run that failed for every
\* company ends, in an existing data directory, with metadata that makes
\* needsUpdate() false.
C19_AllFailedFreshInDirectory ==
    [][\A r \in Slots :
         (/\ runs[r].pc = "write" /\ runs'[r].pc = "returned"
          /\ runs[r].errorCount = NumCompanies /\ dirExists) =>
            /\ metaExists' /\ metaInfo'.lastUpdate = runs[r].stamp
            /\ ~needsUpdate(metaExists', metaInfo', now')
            /\ csvLines' = csvLines]_vars

\* Every provider request of a run failed and the run has just returned
\* with metadata that makes the data count as fresh.
C19_FreshAfterFailures ==
    \E r \in Slots :
        /\ JustReturned(r) /\ runs[r].errorCount = NumCompanies
        /\ \A c \in 1..NumCompanies : runs[r].log[c].isNull
        /\ metaExists /\ ~Stale /\ DataRows = 0

-----------------------------------------------------------------------------
(* C20: the trigger and the freshness of the data *)

\* A trigger handled by slot r: updateStockData or the script.
Trigger(r) == UpdateStockData(r) \/ FetchStockDataScript(r)

\* fetchAllStockData has been called in this step.
IngestCalled(r) == runs'[r].pc \in {"alpha", "threw"}

\* needsUpdate() was evaluated by the trigger: the script exits before it
\* without an API key.
Evaluated(r) == UpdateStockData(r) \/ env.apiKey

\* More than 24 hours have passed since the recorded lastUpdate, or there
\* is no metadata.
StaleByClock == ~metaExists \/ (now - metaInfo.lastUpdate) * HoursPerTick > 24

\* C20: a trigger calls fetchAllStockData exactly when needsUpdate() returned
\* true at that moment; with fresh data it makes no provider request and
\* leaves the table and the metadata unchanged.
C20_TriggerIffStale ==
    [][\A r \in Slots :
         Trigger(r) =>
            /\ IngestCalled(r) <=> (Evaluated(r) /\ StaleByClock)
            /\ ~StaleByClock =>
                  /\ runs'[r].requests = 0 /\ runs'[r].yahooCalls = 0
                  /\ UNCHANGED <<csvExists, csvLines, metaExists, metaInfo>>]_vars

\* C20 with what the script does before it asks needsUpdate(): initialize()
\* creates the table of the header alone when there is none.
C20_TriggerIffStaleRows ==
    [][\A r \in Slots :
         Trigger(r) =>
            /\ IngestCalled(r) <=> (Evaluated(r) /\ StaleByClock)
            /\ ~StaleByClock =>
                  /\ runs'[r].pc = "skipped"
                  /\ runs'[r].requests = 0 /\ runs'[r].yahooCalls = 0
                  /\ UNCHANGED <<metaExists, metaInfo>>
                  /\ csvLines' = (IF csvExists \/ UpdateStockData(r)
                                  THEN csvLines ELSE <<Header>>)
                  /\ UpdateStockData(r) => UNCHANGED <<dirExists, csvExists>>]_vars

\* A trigger has found the data fresh and skipped the ingest: the table has
\* rows and the metadata is the one the last run wrote.
C20_Witness ==
    /\ metaExists /\ ~StaleByClock /\ DataRows > 0
    /\ \E r \in Slots : runs[r].pc = "skipped"

-----------------------------------------------------------------------------
(* C21: what fetchAllStockData throws *)

\* The append of the Tally step raises: fetchCompanyData returned rows and
\* the table file cannot be opened for writing.
AppendRaises(r) ==
    runs[r].pc = "tally" /\ hasData(runs[r].isNull, runs[r].rows) /\ ~dirExists

\* The run in slot r ends by throwing in this step.
Throws(r) == runs[r].pc # "threw" /\ runs'[r].pc = "threw"

\* C21: fetchAllStockData throws only for a missing API key or for a
\* file-system error: a company whose providers failed is tallied in
\* errorCount and the run goes on, whereas an error raised while the rows of
\* a company are appended to the table ends the run by a throw and is not
\* counted as a failure of that company.
C21_FileErrorPropagates ==
    [][\A r \in Slots :
          /\ Throws(r) => (~env.apiKey \/ AppendRaises(r))
          /\ (TallyStep(r) /\ ~hasData(runs[r].isNull, runs[r].rows)) =>
                /\ ~Throws(r)
                /\ runs'[r].errorCount = runs[r].errorCount + 1
          /\ AppendRaises(r) /\ runs'[r] # runs[r] =>
                /\ Throws(r)
                /\ runs'[r].errorCount = runs[r].errorCount]_vars

\* What the loop does with an error of the append: the catch of the loop
\* body counts it in errorCount, nothing is written and the run goes on to
\* the next company or to updateLastUpdateTime; only the key check throws.
C21_FileErrorTallied ==
    [][\A r \in Slots :
          /\ Throws(r) => ~env.apiKey /\ Free(r)
          /\ AppendRaises(r) /\ runs'[r] # runs[r] =>
                /\ runs'[r].pc \in {"alpha", "meta"}
                /\ runs'[r].errorCount = runs[r].errorCount + 1
                /\ runs'[r].successCount = runs[r].successCount
                /\ csvLines' = csvLines]_vars

\* A run that has tallied an append error and has returned its counters.
C21_TalliedAndReturned ==
    \E r \in Slots :
        /\ runs[r].pc = "returned"
        /\ \E k \in 1..Len(runs[r].log) : runs[r].log[k].saveThrew

-----------------------------------------------------------------------------
(* C22: a hard failure of a primary request *)

\* axios.get of callAlpha rejects (transport error, timeout) in this step.
HardFailure(r) ==
    runs[r].pc = "alpha" /\ runs'[r].alpha = "transport"

\* C22: a transport error or timeout of a primary request leaves callAlpha
\* at once: the step makes no backoff sleep, the failed request is the last
\* primary request for that company (every sleep made before it was followed
\* by a request), and fetchCompanyData calls the fallback provider next,
\* exactly once.
C22_HardFailureNoRetry ==
    /\ [][\A r \in Slots : HardFailure(r) =>
            /\ runs'[r].sleeps = runs[r].sleeps
            /\ runs'[r].attempt = runs[r].attempt
            /\ runs'[r].requests = runs[r].requests + 1
            /\ runs'[r].yahooCalls = 0
            /\ runs'[r].pc = "yahoo"]_vars
    /\ [](\A r \in Slots :
            (runs[r].alpha = "transport" /\ runs[r].pc \in {"yahoo", "tally"}) =>
                /\ runs[r].requests = Len(runs[r].sleeps) + 1
                /\ runs[r].requests = runs[r].attempt
                /\ runs[r].yahooCalls = (IF runs[r].pc = "yahoo" THEN 0 ELSE 1))

\* A second primary request that failed hard after one backoff sleep, with
\* the fallback's rows returned.
C22_Witness ==
    \E r \in Slots :
        /\ runs[r].pc = "tally"
        /\ runs[r].alpha = "transport"
        /\ runs[r].requests = 2
        /\ runs[r].sleeps = <<backoffSec(1)>>
        /\ runs[r].yahoo = "chart"
        /\ Len(runs[r].rows) > 0

-----------------------------------------------------------------------------
(* C23: one company at a time, in list order *)

\* The position in this.companies of the company a line of the table is
\* about; 0 for the header.
CompanyOfLine(l) ==
    IF \E c \in 1..NumCompanies : companies[c].symbol = l[2]
    THEN CHOOSE c \in 1..NumCompanies : companies[c].symbol = l[2]
    ELSE 0

\* The lines the run in slot r has appended so far, company by company.
Wrote(r) == [k \in 1..Len(runs[r].log) |-> runs[r].log[k].wrote]

\* The run in slot r is inside fetchAllStockData or has returned from it.
Ingesting(r) ==
    runs[r].pc \in {"alpha", "yahoo", "tally", "meta", "write", "returned"}

\* C23: a run works on one company at a time in the order of the list: while
\* company i is fetched the companies 1 .. i-1, and no other, have been
\* tallied (rows appended or failure counted), in that order; hence the
\* lines the run has appended are the end of the table and stand there
\* grouped by company in list order, with the number of lines tallied for
\* each.
C23_ListOrder ==
    \A r \in Slots : Ingesting(r) =>
        LET run == runs[r]
            n == SumSeq(Wrote(r))
            first == Len(csvLines) - n
        IN
        /\ Len(run.log) =
              (IF run.pc \in {"alpha", "yahoo", "tally"} THEN run.i - 1 ELSE NumCompanies)
        /\ \A k \in 1..Len(run.log) : run.log[k].i = k
        /\ first >= 0
        /\ \A a \in 1..n : CompanyOfLine(csvLines[first + a]) >= 1
        /\ \A a \in 1..(n - 1) :
              CompanyOfLine(csvLines[first + a]) <= CompanyOfLine(csvLines[first + a + 1])
        /\ \A k \in 1..Len(run.log) :
              Cardinality({a \in 1..n : CompanyOfLine(csvLines[first + a]) = k})
                 = run.log[k].wrote

\* A run that has appended rows of the first company and then of the second.
C23_Witness ==
    \E r \in Slots :
        /\ runs[r].pc = "returned"
        /\ \A k \in 1..NumCompanies : runs[r].log[k].wrote > 0
        /\ CompanyOfLine(csvLines[Len(csvLines)]) = NumCompanies
        /\ CompanyOfLine(csvLines[Len(csvLines) - runs[r].log[NumCompanies].wrote]) = 1

-----------------------------------------------------------------------------
(* C24: the sleep between two companies *)

\* The companies the run in slot r has finished (rows appended or failure
\* counted).
Finished(r) == Len(runs[r].log)

\* C24: a run over n companies sleeps the inter-company delay once after
\* each company but the last, whether the company succeeded or failed: after
\* k finished companies it has slept min(k, n - 1) times, n - 1 times when it
\* returns; the delay is separate from the backoff of callAlpha: a backoff
\* sleep adds no delay, and a delay adds no backoff sleep.
C24_ThrottleBetweenCompanies ==
    /\ [][\A r \in Slots :
            /\ (Ingesting(r) /\ Len(runs'[r].sleeps) > Len(runs[r].sleeps)) =>
                  runs'[r].throttles = runs[r].throttles
            /\ (Ingesting(r) /\ runs'[r].throttles > runs[r].throttles) =>
                  /\ TallyStep(r)
                  /\ runs'[r].throttles = runs[r].throttles + 1
                  /\ runs'[r].sleeps = <<>>
                  /\ runs'[r].i = runs[r].i + 1]_vars
    /\ [](\A r \in Slots : Ingesting(r) =>
            /\ runs[r].throttles = Min(Finished(r), NumCompanies - 1)
            /\ runs[r].pc = "returned" => runs[r].throttles = NumCompanies - 1)

\* A returned run whose first company failed after a backoff sleep and whose
\* last company succeeded.
C24_Witness ==
    \E r \in Slots :
        /\ runs[r].pc = "returned"
        /\ runs[r].throttles = NumCompanies - 1
        /\ runs[r].log[1].wrote = 0
        /\ runs[r].log[1].alpha = "exhausted"
        /\ runs[r].log[NumCompanies].wrote > 0
        /\ env.maxAttempts > 1

-----------------------------------------------------------------------------
(* C25: the rows of the table under interleaved callers.  initialize()
   awaits fileExists before it awaits createInitialCsv; here it is cut at
   that await, so that the steps of a run (of this process, or of the
   server while the script starts) can fall between the two *)

\* initialize up to the return of fileExists: mkdir -p, fs.access.  With the
\* table present it is done; otherwise createInitialCsv is pending.
InitializeBegin(r) ==
    /\ Free(r)
    /\ dirExists' = TRUE
    /\ runs' = [runs EXCEPT ![r] =
         IF csvExists THEN IdleRun ELSE [IdleRun EXCEPT !.pc = "create"]]
    /\ query' = NoQuery
    /\ UNCHANGED <<env, csvExists, csvLines, metaExists, metaInfo, now>>

\* createInitialCsv: csv-writer without the append flag writes the header
\* line to the path with flag 'w', whatever the file holds by now.
InitializeCreate(r) ==
    /\ runs[r].pc = "create"
    /\ csvExists' = TRUE
    /\ csvLines' = <<Header>>
    /\ runs' = [runs EXCEPT ![r] = IdleRun]
    /\ query' = NoQuery
    /\ UNCHANGED <<env, dirExists, metaExists, metaInfo, now>>

\* The requests of the interleaving model.
StartupSymbols == {"AAPL", "TSLA"}
StartupPeriods == {"1d", "max"}

NextStartup ==
    \/ \E r \in Slots : InitializeBegin(r)
    \/ \E r \in Slots : InitializeCreate(r)
    \/ \E r \in Slots : UpdateStockData(r)
    \/ \E r \in Slots : AlphaRequest(r) /\ Served(r)'
    \/ \E r \in Slots : YahooRequest(r) /\ Served(r)'
    \/ \E r \in Slots : Tally(r)
    \/ \E r \in Slots : ReadDataPoints(r)
    \/ \E r \in Slots : WriteMeta(r)
    \/ \E symbol \in StartupSymbols, period \in StartupPeriods : Query(symbol, period)

SpecStartup == InitConcurrent /\ [][NextStartup]_vars

\* The data rows of a table, in order.
RowsOf(lines) ==
    LET IsRow(l) == l # Header IN SelectSeq(lines, IsRow)

\* s is the beginning of t.
IsPrefix(s, t) == Len(s) <= Len(t) /\ SubSeq(t, 1, Len(s)) = s

\* A step that only reads: a request answered by getStockData, or a trigger
\* that found the data fresh (needsUpdate over getLastUpdateInfo).
ReadOnlyStep ==
    \/ QueryStep
    \/ \E r \in Slots :
          /\ TriggerStep(r) /\ runs'[r].pc = "skipped"
          /\ \A s \in Slots \ {r} : runs'[s] = runs[s]

\* C25: whatever the interleaving of initialize, ingest runs, requests and
\* freshness checks, the rows the table holds stay in it, unmodified and in
\* order: every step leaves the rows as they are or adds rows at the end,
\* rows are added only by the append of a run, and a request or freshness
\* check changes neither the table nor the metadata.
C25_RowsOnlyAppended ==
    [][/\ IsPrefix(RowsOf(csvLines), RowsOf(csvLines'))
       /\ RowsOf(csvLines') # RowsOf(csvLines) => \E r \in Slots : TallyStep(r)
       /\ ReadOnlyStep =>
             UNCHANGED <<csvExists, csvLines, metaExists, metaInfo>>]_vars

\* The rows alone; this holds where initialize() runs as one step (Spec,
\* SpecConcurrent).
C25_RowsKept ==
    [][/\ IsPrefix(RowsOf(csvLines), RowsOf(csvLines'))
       /\ RowsOf(csvLines') # RowsOf(csvLines) => \E r \in Slots : TallyStep(r)]_vars

\* What the readers leave alone.
C25_ReadersChangeNothing ==
    [][ReadOnlyStep => UNCHANGED <<csvExists, csvLines, metaExists, metaInfo>>]_vars

\* createInitialCsv has replaced a table that held rows.
C25_RowsLost ==
    /\ csvLines = <<Header>>
    /\ \E r \in Slots : runs[r].totalRows > 0

-----------------------------------------------------------------------------
(* C26: the layout of the table *)

\* A line that reads as a record in header order: a date, a symbol, a name,
\* a sector and eight numbers.
IsDataRow(l) ==
    /\ Len(l) = Len(Header)
    /\ l # Header
    /\ ~parseDate(l[1]).nan
    /\ \E c \in 1..NumCompanies : toUpperCase(companies[c].symbol) = l[2]
    /\ \A k \in 5..Len(Header) : ~parseFloat(l[k]).nan

\* C26: whenever the table file exists its first line is the header and
\* every later line is a data row in the header's column order, whatever the
\* order of initialize and ingest runs, a run that appends while no table
\* file exists included.
C26_HeaderFirst ==
    csvExists =>
        /\ Len(csvLines) >= 1
        /\ csvLines[1] = Header
        /\ \A k \in 2..Len(csvLines) : IsDataRow(csvLines[k])

\* What holds of every table: each line is the header or a data row, and the
\* header stands nowhere but in the first line.
C26_RowsWellFormed ==
    csvExists =>
        /\ Len(csvLines) >= 1
        /\ \A k \in 1..Len(csvLines) :
              IF csvLines[k] = Header THEN k = 1 ELSE IsDataRow(csvLines[k])

\* A table created by an append: its first line is a data row.
C26_HeaderlessTable ==
    csvExists /\ Len(csvLines) >= 1 /\ IsDataRow(csvLines[1])

-----------------------------------------------------------------------------
(* C27: the trailing days an adapter keeps.  One run from its first request
   on, for the values STOCK_DAYS can be set to, 0 included
   (parseInt('0', 10) is 0; '0' is a non-empty string, so the default does
   not replace it) *)

DaysSettings == {0, 1, SmallDays, DefaultDays}

InitAdapters ==
    /\ env \in [apiKey : {TRUE}, maxAttempts : {1, MaxRetries}, days : DaysSettings]
    /\ dirExists = TRUE
    /\ csvExists = TRUE
    /\ csvLines = <<Header>>
    /\ metaExists = FALSE
    /\ metaInfo = NoMeta
    /\ now \in 0..MaxClock
    /\ runs = [r \in Slots |-> IF r = "t1" THEN BeginFetchAll ELSE IdleRun]
    /\ query = NoQuery

NextAdapters ==
    \/ \E r \in Slots : AlphaRequest(r)
    \/ \E r \in Slots : YahooRequest(r)
    \/ \E r \in Slots : Tally(r)

SpecAdapters == InitAdapters /\ [][NextAdapters]_vars

\* The days from which the adapter that answered could build a row: the
\* dates of the primary payload, or the chart entries that have an open and
\* a close.
SuppliedDays(r) ==
    CASE runs[r].alpha = "ts" -> PayloadDays(now, ProviderPoints)
      [] runs[r].yahoo = "chart" ->
           {d \in PayloadDays(now, YahooRangeDays(env.days)) :
               YahooKeeps(companies[runs[r].i].symbol, d)}
      [] OTHER -> {}

\* The n latest of a set of days.
LatestOf(S, n) == {d \in S : Cardinality({e \in S : e > d}) < n}

\* An adapter has returned rows to the loop of the run in slot r.
AdapterReturned(r) ==
    runs[r].pc = "tally" /\ ~runs[r].isNull /\ runs[r].rows # <<>>

\* The rows are the n latest supplied days, oldest first.
TrailingDays(r, n) ==
    LET rows == runs[r].rows IN
    /\ Len(rows) <= n
    /\ {parseDate(rows[k].date).v : k \in 1..Len(rows)} = LatestOf(SuppliedDays(r), n)
    /\ \A k \in 1..(Len(rows) - 1) :
          parseDate(rows[k].date).v < parseDate(rows[k + 1].date).v

\* C27: for every configured value N of STOCK_DAYS each adapter returns at
\* most N rows for a company: the rows of the N latest dates among those the
\* provider supplied, in ascending order of date.
C27_TrailingDays ==
    \A r \in Slots : AdapterReturned(r) => TrailingDays(r, env.days)

\* The same for the settings of at least one day.
C27_TrailingDaysPositive ==
    \A r \in Slots : (AdapterReturned(r) /\ env.days >= 1) => TrailingDays(r, env.days)

\* With STOCK_DAYS=0 an adapter returns every day of the payload.
C27_ZeroKeepsAll ==
    \E r \in Slots :
        /\ AdapterReturned(r)
        /\ env.days = 0
        /\ runs[r].alpha = "ts"
        /\ Len(runs[r].rows) = ProviderPoints

-----------------------------------------------------------------------------
(* C28: termination of a run.  One run from its first request on, for the
   values STOCK_MAX_RETRIES can be set to, a text that is no number
   included (parseInt gives NaN) *)

RetrySettings == {0, 1, MaxRetries, NotANumber}

\* The primary requests of one company the model follows.
MaxRequests == MaxRetries + 2

InitRetries ==
    /\ env \in [apiKey : {TRUE}, maxAttempts : RetrySettings, days : {SmallDays}]
    /\ dirExists \in BOOLEAN
    /\ csvExists = dirExists
    /\ csvLines = (IF csvExists THEN <<Header>> ELSE <<>>)
    /\ metaExists = FALSE
    /\ metaInfo = NoMeta
    /\ now \in 0..MaxClock
    /\ runs = [r \in Slots |-> IF r = "t1" THEN BeginFetchAll ELSE IdleRun]
    /\ query = NoQuery

NextRetries ==
    \/ \E r \in Slots : runs[r].requests < MaxRequests /\ AlphaRequest(r)
    \/ \E r \in Slots : YahooRequest(r)
    \/ \E r \in Slots : Tally(r)
    \/ \E r \in Slots : ReadDataPoints(r)
    \/ \E r \in Slots : WriteMeta(r)

SpecRetries == InitRetries /\ [][NextRetries]_vars

\* Every awaited request and file operation returns or times out.
SpecRetriesFair == SpecRetries /\ WF_vars(NextRetries)

\* n <= limit as the program evaluates it.
AtMost(n, limit) == limit # NotANumber /\ n <= limit

\* C28: a run terminates: the primary requests it has made for a company
\* are at most maxAttempts and the fallback requests at most one.
C28_BoundedRequests ==
    \A r \in Slots : Ingesting(r) =>
        /\ runs[r].requests >= 1 => AtMost(runs[r].requests, env.maxAttempts)
        /\ runs[r].yahooCalls <= 1

\* With a numeric STOCK_MAX_RETRIES: at most max(maxAttempts, 1) primary
\* requests and one fallback request per company.
C28_BoundedRequestsNumeric ==
    \A r \in Slots : (Ingesting(r) /\ env.maxAttempts # NotANumber) =>
        /\ runs[r].requests <= Max(env.maxAttempts, 1)
        /\ runs[r].yahooCalls <= 1

\* With a numeric STOCK_MAX_RETRIES the run returns its counters.
C28_ReturnsWhenNumeric ==
    env.maxAttempts # NotANumber => <>(runs["t1"].pc = "returned")

\* With STOCK_MAX_RETRIES that is no number, a company whose every response
\* carries a marker is asked again after each of them.
C28_RetriesWithoutEnd ==
    \E r \in Slots :
        /\ env.maxAttempts = NotANumber
        /\ runs[r].pc = "alpha"
        /\ runs[r].requests = MaxRequests
        /\ Len(runs[r].sleeps) = MaxRequests

-----------------------------------------------------------------------------
(* C29: a metadata file the program did not write as it stands: its
   lastUpdate is missing, is no date, or lies ahead of the clock (a file
   edited or copied, a clock that was set back) *)

\* How far ahead of the clock's start a lastUpdate of the file lies, and how
\* long the clock is followed: until the latest of them is stale.
FutureTicks == 1
LastTick == FutureTicks + StaleTicks

\* The lastUpdate the file can hold: no date, or a date from the clock's
\* start on.
MetaStamps == {NotANumber} \cup (0..FutureTicks)

InitFreshness ==
    /\ env \in [apiKey : BOOLEAN, maxAttempts : {1}, days : {SmallDays}]
    /\ dirExists = TRUE
    /\ csvExists = TRUE
    /\ csvLines = <<Header>>
    /\ metaExists = TRUE
    /\ metaInfo \in [lastUpdate : MetaStamps, totalCompanies : {NumCompanies},
                     dataPoints : {0}]
    /\ now = 0
    /\ runs = [r \in Slots |-> IdleRun]
    /\ query = NoQuery

\* Time passes, as in Tick, up to LastTick.
TickOn ==
    /\ now < LastTick
    /\ \A r \in Slots : Free(r) \/ runs[r].pc = "alpha"
    /\ now' = now + 1
    /\ query' = NoQuery
    /\ UNCHANGED <<env, dirExists, csvExists, csvLines, metaExists, metaInfo, runs>>

NextFreshness ==
    \/ TickOn
    \/ (\A s \in Slots : Free(s)) /\ UpdateStockData("t1")
    \/ (\A s \in Slots : Free(s)) /\ FetchStockDataScript("t1")
    \/ \E r \in Slots : AlphaRequest(r)
    \/ \E r \in Slots : YahooRequest(r)
    \/ \E r \in Slots : Tally(r)
    \/ \E r \in Slots : ReadDataPoints(r)
    \/ \E r \in Slots : WriteMeta(r)

SpecFreshness == InitFreshness /\ [][NextFreshness]_vars

\* The file's lastUpdate is missing or is no date.
NoDate == metaExists /\ metaInfo.lastUpdate = NotANumber

\* The file's lastUpdate lies ahead of the clock.
InFuture == metaExists /\ metaInfo.lastUpdate # NotANumber /\ metaInfo.lastUpdate > now

\* A trigger is handled in this step by slot r and has asked needsUpdate()
\* (the script does not ask without an API key).
Asked(r) == TriggerStep(r) /\ Evaluated(r)

C29_FutureTurnsStale ==
    /\ metaExists /\ metaInfo.lastUpdate = FutureTicks
    /\ now = LastTick
    /\ runs["t1"].pc = "alpha"

-----------------------------------------------------------------------------
(* C30: the name and sector of a summary *)

\* The configured company of a symbol of the list.
CompanyOf(symbol) ==
    CHOOSE c \in {companies[k] : k \in 1..NumCompanies} :
        toUpperCase(c.symbol) = toUpperCase(symbol)

\* The row getStockData takes the name and sector from: of the stored lines
\* of the symbol, the first one that has the latest date.
LatestLine(symbol) ==
    LET lines == StoredLinesOf(symbol)
        top == CHOOSE d \in {DayOfLine(lines[k]) : k \in 1..Len(lines)} :
                   \A k \in 1..Len(lines) : DayOfLine(lines[k]) <= d
        k0 == CHOOSE k \in 1..Len(lines) :
                  /\ DayOfLine(lines[k]) = top
                  /\ \A j \in 1..(k - 1) : DayOfLine(lines[j]) # top
    IN  lines[k0]

\* C30: a row of the fallback provider carries the uppercased symbol as name
\* and 'Unknown' as sector, whatever is configured for the symbol, and a row
\* of the primary provider the configured name and sector; the summary of
\* getStockData has the name and sector of the symbol's latest row, so they
\* are the configured ones when the primary provider served that row and
\* the symbol and 'Unknown' when the fallback did.
C30_NameFollowsLatestRow ==
    (Answered /\ query.result.kind = "ok") =>
        LET symbol == toUpperCase(query.symbol)
            company == CompanyOf(symbol)
            latest == LatestLine(symbol)
            day == DayOfLine(latest)
            fromPrimary == latest = RecordLine(AlphaRow(company, day))
            fromFallback == latest = RecordLine(YahooRow(company.symbol, day))
        IN  /\ Summary.name = latest[3]
            /\ Summary.sector = latest[4]
            /\ fromPrimary \/ fromFallback
            /\ fromPrimary =>
                  Summary.name = company.name /\ Summary.sector = company.sector
            /\ fromFallback =>
                  /\ Summary.name = symbol /\ Summary.sector = "Unknown"
                  /\ Summary.name # company.name /\ Summary.sector # company.sector

\* A summary with the configured name and sector for a symbol whose earlier
\* rows, served by the fallback provider, carry the symbol and 'Unknown'.
C30_Witness ==
    /\ Answered /\ query.result.kind = "ok"
    /\ query.symbol = "AAPL"
    /\ Summary.name = "Apple Inc." /\ Summary.sector = "Technology"
    /\ \E j \in 1..Len(csvLines) :
          csvLines[j][3] = "AAPL" /\ csvLines[j][4] = "Unknown"

\* A summary named after the symbol, with sector 'Unknown': the fallback
\* provider served the latest row.
C30_WitnessFallback ==
    /\ Answered /\ query.result.kind = "ok"
    /\ query.symbol = "AAPL"
    /\ Summary.name = "AAPL" /\ Summary.sector = "Unknown"
    /\ LatestLine("AAPL") = RecordLine(YahooRow("AAPL", DayOfLine(LatestLine("AAPL"))))

=============================================================================
